---- MODULE Spec2Model ----
(***************************************************************************)
(* State-machine model of the y2b job pipeline (src/app/main.py,           *)
(* src/app/config.py): the in-memory job store, the FIFO job queue and its *)
(* workers, the download semaphore shared by the queued and the immediate  *)
(* path, the offloaded fetch / upload threads, and the cleanup loop.       *)
(*                                                                         *)
(* One action is one run of a coroutine between two suspension points of   *)
(* the event loop (await job_queue.get(), semaphore acquire,               *)
(* await asyncio.to_thread(...), await asyncio.sleep(...)).                *)
(***************************************************************************)
EXTENDS Integers, Sequences, FiniteSets, TLC

VARIABLES
    _jobs,          \* main.py:66   job id -> job record (a Python dict)
    job_queue,      \* main.py:65   FIFO of <<job_id, payload>>
    sem_value,      \* main.py:59   download_semaphore._value (free slots)
    task,           \* per coroutine (worker or POST /download request): pc and locals
    threads,        \* fetch threads still running after their awaiting task was cancelled
    files,          \* the output directory: file name -> st_mtime
    uuid_count,     \* number of uuid.uuid4() values drawn so far
    clock,          \* wall clock (datetime.utcnow / time.time)
    azure,          \* the Azure part of Settings, fixed at start-up
    last,           \* the HTTP response (or internal event) of the last step
    sweep           \* the _cleanup_loop coroutine: pc and locals

vars == <<_jobs, job_queue, sem_value, task, threads, files,
          uuid_count, clock, azure, last, sweep>>

----------------------------------------------------------------------------
(* Bounds of the model *)

\* uuid.uuid4() is drawn at most this many times (one per enqueue, one per fetch)
MaxUuids == 4
\* the clock takes the values 0..MaxClock
MaxClock == 1
\* settings.MAX_CONCURRENT_DOWNLOADS: semaphore capacity and number of workers
MAX_CONCURRENT_DOWNLOADS == 2

Workers == 1..MAX_CONCURRENT_DOWNLOADS        \* worker_index = i + 1
Requests == {101, 102}                        \* POST /download request slots
Tasks == Workers \cup Requests

----------------------------------------------------------------------------
(* Settings (src/app/config.py) *)

None == "None"

DEFAULT_AUDIO_FORMAT == "mp3"
DEFAULT_AUDIO_QUALITY == "best"
allowed_formats_list == {"mp3", "m4a", "ogg", "wav"}
\* host names are sequences of text pieces; "youtube.com" is one piece
allowed_domains_list == {<<"youtube.com">>, <<"youtu.be">>}
quality_bitrate_mapping == [best |-> 0, high |-> 192, medium |-> 128, low |-> 64]
\* 64 * 1024, the cookie upload limit
MAX_COOKIES_BYTES == 65536

\* str.lower() on the strings the model uses
Lower(s) ==
    CASE s = "MP3" -> "mp3"
      [] s = "FLAC" -> "flac"
      [] s = "HIGH" -> "high"
      [] s = "Best" -> "best"
      [] OTHER -> s

\* a or b, for an optional string a
OrDefault(a, b) == IF a = None \/ a = "" THEN b ELSE a

\* str.endswith on sequences of pieces
EndsWith(s, d) ==
    /\ Len(d) <= Len(s)
    /\ SubSeq(s, Len(s) - Len(d) + 1, Len(s)) = d

----------------------------------------------------------------------------
(* Job store *)

\* dict.update: the fields of f override those of rec
DictUpdate(rec, f) ==
    [k \in DOMAIN rec \cup DOMAIN f |-> IF k \in DOMAIN f THEN f[k] ELSE rec[k]]

\* dict item assignment d[k] = v
DictSet(d, k, v) ==
    [x \in DOMAIN d \cup {k} |-> IF x = k THEN v ELSE d[x]]

\* mutant: the id is handed out without a record
_create_job_record_none(jobs, job_id, payload, now) == jobs

_create_job_record(jobs, job_id, payload, now) ==
    DictSet(jobs, job_id,
            [id |-> job_id, status |-> "pending", created_at |-> now,
             updated_at |-> now, payload |-> payload])

\* mutant: the timestamp refresh is applied to every record of the store
_update_job_touch_all(jobs, job_id, fields, now) ==
    IF job_id \notin DOMAIN jobs
    THEN jobs
    ELSE [j \in DOMAIN jobs |->
            IF j = job_id
            THEN DictUpdate(DictUpdate(jobs[j], fields), [updated_at |-> now])
            ELSE DictUpdate(jobs[j], [updated_at |-> now])]

\* mutant: the fields are applied and updated_at is left as it was
_update_job_keeps_timestamp(jobs, job_id, fields, now) ==
    IF job_id \notin DOMAIN jobs
    THEN jobs
    ELSE [jobs EXCEPT ![job_id] = DictUpdate(jobs[job_id], fields)]

\* mutant: an unknown id gets a record made of the given fields
_update_job_upsert(jobs, job_id, fields, now) ==
    DictSet(jobs, job_id,
            DictUpdate(DictUpdate(IF job_id \in DOMAIN jobs THEN jobs[job_id]
                                  ELSE [id |-> job_id],
                                  fields),
                       [updated_at |-> now]))

_update_job(jobs, job_id, fields, now) ==
    IF job_id \notin DOMAIN jobs
    THEN jobs
    ELSE [jobs EXCEPT ![job_id] =
            DictUpdate(DictUpdate(jobs[job_id], fields), [updated_at |-> now])]

----------------------------------------------------------------------------
(* Request validation *)

_map_quality(quality) ==
    IF quality = None \/ quality = "" THEN 0
    ELSE IF Lower(quality) \in DOMAIN quality_bitrate_mapping
         THEN quality_bitrate_mapping[Lower(quality)]
         ELSE 0

\* the detail of the HTTPException(400) raised, or "ok"
_validate_url(url) ==
    IF url = <<>> THEN "URL is required"
    ELSE IF allowed_domains_list # {}
            /\ ~ \E d \in allowed_domains_list : EndsWith(url, d)
         THEN "URL domain not allowed"
         ELSE "ok"

\* mutant: the format check is skipped
_is_allowed_format_any(fmt) == TRUE

_is_allowed_format(fmt) == Lower(fmt) \in allowed_formats_list

----------------------------------------------------------------------------
(* Request bodies the handlers are driven with *)

UrlWatch == <<"www.", "youtube.com">>
UrlShort == <<"youtu.be">>
UrlEvil == <<"evil.com">>
NoUrl == <<>>

\* JSON bodies of POST /download/async and POST /download
JsonBodies ==
    { [url |-> UrlWatch, format |-> None,   quality |-> None,   cookies |-> None],
      [url |-> UrlShort, format |-> "MP3",  quality |-> "HIGH", cookies |-> "cookies"],
      [url |-> NoUrl,    format |-> None,   quality |-> None,   cookies |-> None],
      [url |-> UrlEvil,  format |-> None,   quality |-> None,   cookies |-> None],
      [url |-> UrlWatch, format |-> "FLAC", quality |-> None,   cookies |-> None] }

\* a request that passes validation, without cookies
PlainBody == [url |-> UrlWatch, format |-> None, quality |-> None, cookies |-> None]

\* multipart bodies of POST /download/async/form and POST /download;
\* cookies_size is the length of the uploaded cookies file, -1 when there is none
FormBodies ==
    { [url |-> UrlWatch, format |-> None,   quality |-> None,   cookies_size |-> -1],
      [url |-> UrlShort, format |-> "MP3",  quality |-> "HIGH", cookies_size |-> 65536],
      [url |-> UrlShort, format |-> "MP3",  quality |-> "HIGH", cookies_size |-> 65537],
      [url |-> NoUrl,    format |-> None,   quality |-> None,   cookies_size |-> -1],
      [url |-> UrlWatch, format |-> "FLAC", quality |-> None,   cookies_size |-> 0] }

\* content.decode("utf-8") of an uploaded cookies file
CookiesText(size) ==
    IF size < 0 THEN None ELSE IF size = 0 THEN "" ELSE "cookies"

\* uuid.uuid4(): a value never drawn before
uuid4(count) == count + 1

\* what a handler leaves in `last` when it raises HTTPException / returns
\* op: the handler; job_id: the id in the request or the response; data: the
\* response body of a 200
NoEvent == [op |-> "internal", status |-> 0, job_id |-> 0, data |-> None]

Response(op, status, job_id, data) ==
    [op |-> op, status |-> status, job_id |-> job_id, data |-> data]

----------------------------------------------------------------------------
(* POST /download/async and POST /download/async/form *)

\* lines 299-306: "ok" or the detail of the 400 raised
enqueue_download_check(body) ==
    LET fmt == Lower(OrDefault(body.format, DEFAULT_AUDIO_FORMAT))
    IN  IF _validate_url(body.url) # "ok" THEN _validate_url(body.url)
        ELSE IF ~ _is_allowed_format(fmt) THEN "Format not allowed"
        ELSE "ok"

\* lines 377-394: "ok" or the detail of the 400 raised
enqueue_download_form_check(body) ==
    LET fmt == Lower(OrDefault(body.format, DEFAULT_AUDIO_FORMAT))
    IN  IF body.url = <<>> THEN "url field required"
        ELSE IF body.cookies_size >= 0 /\ body.cookies_size > MAX_COOKIES_BYTES
             THEN "Cookies file too large (>64KB)"
        ELSE IF _validate_url(body.url) # "ok" THEN _validate_url(body.url)
        ELSE IF ~ _is_allowed_format(fmt) THEN "Format not allowed"
        ELSE "ok"

\* dict(url=url, format=fmt, quality_label=q, bitrate=bitrate, cookies=cookies_content)
MakePayload(url, format, quality, cookies) ==
    LET q == Lower(OrDefault(quality, DEFAULT_AUDIO_QUALITY))
    IN  [url |-> url,
         format |-> Lower(OrDefault(format, DEFAULT_AUDIO_FORMAT)),
         quality_label |-> q,
         bitrate |-> _map_quality(q),
         cookies |-> cookies]

\* mutant: the queue hands out the newest item first
queue_put_lifo(q, item) == <<item>> \o q

\* asyncio.Queue.put on the unbounded FIFO queue (lines 312, 400)
queue_put(q, item) == Append(q, item)

\* lines 308-314 / 396-402: create the record, put the pair on the queue
\* (one uuid for the job id now, one kept for the fetch of every queued job)
EnqueueCommit(op, body, payload) ==
    LET job_id == uuid4(uuid_count)
    IN  /\ uuid_count + Len(job_queue) + 2 <= MaxUuids
        /\ uuid_count' = uuid_count + 1
        /\ _jobs' = _create_job_record(_jobs, job_id, payload, clock)
        /\ job_queue' = queue_put(job_queue, <<job_id, payload>>)
        /\ last' = Response(op, 200, job_id, "pending")

EnqueueReject(op, body, detail) ==
    /\ last' = Response(op, 400, 0, None)
    /\ UNCHANGED <<_jobs, job_queue, uuid_count>>

enqueue_download(body) ==
    /\ body \in JsonBodies
    /\ IF enqueue_download_check(body) = "ok"
       THEN EnqueueCommit("enqueue", body,
                MakePayload(body.url, body.format, body.quality, body.cookies))
       ELSE EnqueueReject("enqueue", body, enqueue_download_check(body))
    /\ UNCHANGED <<sem_value, task, threads, files, clock, azure, sweep>>

enqueue_download_form(body) ==
    /\ body \in FormBodies
    /\ IF enqueue_download_form_check(body) = "ok"
       THEN EnqueueCommit("enqueue_form", body,
                MakePayload(body.url, body.format, body.quality,
                            CookiesText(body.cookies_size)))
       ELSE EnqueueReject("enqueue_form", body, enqueue_download_form_check(body))
    /\ UNCHANGED <<sem_value, task, threads, files, clock, azure, sweep>>

----------------------------------------------------------------------------
(* Azure settings (src/app/config.py:52-62, 88-109) *)

\* conn: AZURE_STORAGE_CONNECTION_STRING is set; sas: AZURE_BLOB_ACCOUNT_URL and a
\* non-empty AZURE_SAS_TOKEN are set; lib: azure.storage.blob could be imported
AzureSettings ==
    [AZURE_UPLOAD_ENABLED : BOOLEAN, conn : BOOLEAN, sas : BOOLEAN,
     AZURE_GENERATE_SAS : BOOLEAN, AZURE_DELETE_LOCAL_AFTER_UPLOAD : BOOLEAN,
     lib : BOOLEAN]

AzureOff ==
    [AZURE_UPLOAD_ENABLED |-> FALSE, conn |-> FALSE, sas |-> FALSE,
     AZURE_GENERATE_SAS |-> FALSE, AZURE_DELETE_LOCAL_AFTER_UPLOAD |-> FALSE,
     lib |-> TRUE]

AzureConn ==
    [AZURE_UPLOAD_ENABLED |-> TRUE, conn |-> TRUE, sas |-> FALSE,
     AZURE_GENERATE_SAS |-> TRUE, AZURE_DELETE_LOCAL_AFTER_UPLOAD |-> TRUE,
     lib |-> TRUE]

azure_uses_connection_string(az) == az.conn

azure_uses_sas(az) == az.sas

\* mutant: the feature flag is not consulted
azure_is_configured_no_flag(az) ==
    azure_uses_connection_string(az) \/ azure_uses_sas(az)

azure_is_configured(az) ==
    IF ~ az.AZURE_UPLOAD_ENABLED THEN FALSE
    ELSE azure_uses_connection_string(az) \/ azure_uses_sas(az)

----------------------------------------------------------------------------
(* _perform_download: the part up to the first suspension point *)

IdleTask ==
    [pc |-> "idle", job |-> 0, uid |-> 0, fmt |-> None, q |-> None, cookie |-> FALSE]

CookiesFile(unique_id) == <<unique_id, "_cookies.txt">>

Artifact(unique_id, ext) == <<unique_id, ext>>

\* pathlib unlink / dict removal
Remove(dir, name) == [n \in DOMAIN dir \ {name} |-> dir[n]]

\* asyncio.Semaphore: acquire() when a slot is free, release()
SemAcquire(v) == v - 1

\* mutant: leaving the semaphore does not give the slot back
SemRelease_none(v) == v

SemRelease(v) == v + 1

\* lines 406-435: draw unique_id, write the cookies file, enter the semaphore
PerformBegin(t, job_id, payload) ==
    LET unique_id == uuid4(uuid_count)
        has_cookies == payload.cookies # None /\ payload.cookies # ""
        locals == [pc |-> "acquire", job |-> job_id, uid |-> unique_id,
                   fmt |-> payload.format, q |-> payload.quality_label,
                   cookie |-> has_cookies]
    IN  /\ uuid_count' = uuid_count + 1
        /\ files' = IF has_cookies
                    THEN DictSet(files, CookiesFile(unique_id), clock)
                    ELSE files
        /\ IF sem_value > 0
           THEN /\ sem_value' = SemAcquire(sem_value)
                /\ task' = [task EXCEPT ![t] = [locals EXCEPT !.pc = "fetch"]]
           ELSE /\ sem_value' = sem_value
                /\ task' = [task EXCEPT ![t] = locals]

\* a coroutine suspended in download_semaphore.acquire() gets a slot
Acquire(t) ==
    /\ task[t].pc = "acquire"
    /\ sem_value > 0
    /\ sem_value' = SemAcquire(sem_value)
    /\ task' = [task EXCEPT ![t].pc = "fetch"]
    /\ last' = NoEvent
    /\ UNCHANGED <<_jobs, job_queue, threads, files, uuid_count, clock, azure, sweep>>

----------------------------------------------------------------------------
(* _job_worker *)

\* mutant: the status is not part of the first update
RunningFields_no_status(w) == [worker |-> w]

\* line 94
RunningFields(w) == [status |-> "running", worker |-> w]

\* mutant: the item stays at the head of the queue
queue_get_keep(q) == q

\* asyncio.Queue.get: the queue without the item handed out (line 93)
queue_get(q) == Tail(q)

\* lines 93-102: dequeue, mark running, start the download
WorkerGet(w) ==
    /\ w \in Workers
    /\ task[w].pc = "idle"
    /\ job_queue # <<>>
    /\ LET job_id == Head(job_queue)[1]
           params == Head(job_queue)[2]
       IN  /\ job_queue' = queue_get(job_queue)
           /\ _jobs' = _update_job(_jobs, job_id, RunningFields(w), clock)
           /\ PerformBegin(w, job_id, params)
    /\ last' = NoEvent
    /\ UNCHANGED <<threads, clock, azure, sweep>>

\* Python exception classes: the subclasses of Exception among those raised here
\* (asyncio.CancelledError derives from BaseException only)
ExceptionSubclasses == {"HTTPException", "DownloadError", "RuntimeError", "OSError"}

HTTPException(status_code, detail) ==
    [cls |-> "HTTPException", status |-> status_code, detail |-> detail]

\* mutant: the worker only handles the fetch engine's own error class
_job_worker_catches_narrow(cls) == cls = "DownloadError"

\* line 104: except Exception
_job_worker_catches(cls) == cls \in ExceptionSubclasses

\* mutant: the record is marked completed without storing the outcome
CompletedFields_no_result(resp) == [status |-> "completed"]

\* line 103
CompletedFields(resp) == [status |-> "completed", result |-> resp]

\* line 105: str(e) of the HTTPException
ErrorFields(exc) == [status |-> "error", error |-> exc.detail]

\* _perform_download returns resp to its caller: the worker (line 103) or the
\* POST /download handler (line 262)
Return(t, resp) ==
    /\ task' = [task EXCEPT ![t] = IdleTask]
    /\ IF t \in Workers
       THEN /\ _jobs' = _update_job(_jobs, task[t].job, CompletedFields(resp), clock)
            /\ last' = NoEvent
       ELSE /\ _jobs' = _jobs
            /\ last' = Response("download", 200, 0, resp)

\* _perform_download raises exc into its caller: the worker (lines 104-108) or
\* the POST /download handler, where it becomes the response
Raise(t, exc) ==
    IF t \in Workers
    THEN /\ last' = NoEvent
         /\ IF _job_worker_catches(exc.cls)
            THEN /\ _jobs' = _update_job(_jobs, task[t].job, ErrorFields(exc), clock)
                 /\ task' = [task EXCEPT ![t] = IdleTask]
            ELSE /\ _jobs' = _jobs
                 /\ task' = [task EXCEPT ![t] = [IdleTask EXCEPT !.pc = "exited"]]
    ELSE /\ _jobs' = _jobs
         /\ task' = [task EXCEPT ![t] = IdleTask]
         /\ last' = Response("download", exc.status, 0, None)

----------------------------------------------------------------------------
(* _perform_download: the fetch returns; locate the file; upload stage *)

\* what the offloaded blocking_download() can do
FetchOutcomes == {"ok", "other_ext", "DownloadError", "RuntimeError"}

\* the file the fetch thread leaves in the output directory
FetchWrites(dir, unique_id, fmt, outcome, now) ==
    CASE outcome = "ok" -> DictSet(dir, Artifact(unique_id, fmt), now)
      [] outcome = "other_ext" -> DictSet(dir, Artifact(unique_id, "webm"), now)
      [] OTHER -> dir

\* lines 444-449
FetchError(outcome) ==
    IF outcome = "DownloadError"
    THEN HTTPException(500, "Download failed")
    ELSE HTTPException(500, "Internal download error")

\* lines 450-455
CookiesCleanup(dir, me) ==
    IF me.cookie /\ CookiesFile(me.uid) \in DOMAIN dir
    THEN Remove(dir, CookiesFile(me.uid))
    ELSE dir

\* lines 457-465: a file <unique_id>.<ext> with an allowed extension
Located(dir, unique_id) ==
    {n \in DOMAIN dir : n[1] = unique_id /\ Lower(n[2]) \in allowed_formats_list}

\* mutant: the decision does not look at the import of the storage library
UploadDecision_ignores_library(az) ==
    IF az.AZURE_UPLOAD_ENABLED /\ ~ azure_is_configured(az) THEN "missing_credentials"
    ELSE IF azure_is_configured(az) THEN "upload"
    ELSE "skip"

\* lines 480-486: which branch of the upload decision is taken
UploadDecision(az) ==
    IF az.AZURE_UPLOAD_ENABLED /\ ~ azure_is_configured(az) THEN "missing_credentials"
    ELSE IF azure_is_configured(az) /\ ~ az.lib THEN "not_installed"
    ELSE IF azure_is_configured(az) THEN "upload"
    ELSE "skip"

\* lines 481 and 484: the blob_error of a decision that attempts nothing
ConfigurationError(decision) ==
    CASE decision = "missing_credentials" ->
             "Azure upload enabled but missing credentials"
      [] decision = "not_installed" ->
             "Azure upload configured but azure-storage-blob not installed"
      [] OTHER -> None

\* mutant: an upload error clears the success flag
DownloadResponse_fail_on_error(me, name, az, uploaded, url, sas_url, error) ==
    [success |-> error = None, filename |-> name, file_size |-> 1, duration |-> 1,
     title |-> "title", quality |-> me.q,
     blob_uploaded |-> IF az.AZURE_UPLOAD_ENABLED \/ azure_is_configured(az)
                       THEN (IF uploaded THEN "True" ELSE "False") ELSE None,
     blob_url |-> url, blob_sas_url |-> sas_url, blob_error |-> error]

\* mutant: blob_uploaded is set before _upload_to_azure is awaited
DownloadResponse_uploaded_early(me, name, az, uploaded, url, sas_url, error) ==
    [success |-> TRUE, filename |-> name, file_size |-> 1, duration |-> 1,
     title |-> "title", quality |-> me.q,
     blob_uploaded |-> IF az.AZURE_UPLOAD_ENABLED \/ azure_is_configured(az)
                       THEN (IF uploaded \/ UploadDecision(az) = "upload"
                             THEN "True" ELSE "False")
                       ELSE None,
     blob_url |-> url, blob_sas_url |-> sas_url, blob_error |-> error]

\* lines 501-512
DownloadResponse(me, name, az, uploaded, url, sas_url, error) ==
    [success |-> TRUE, filename |-> name, file_size |-> 1, duration |-> 1,
     title |-> "title", quality |-> me.q,
     blob_uploaded |-> IF az.AZURE_UPLOAD_ENABLED \/ azure_is_configured(az)
                       THEN (IF uploaded THEN "True" ELSE "False") ELSE None,
     blob_url |-> url, blob_sas_url |-> sas_url, blob_error |-> error]

FetchReturns(t, outcome) ==
    /\ task[t].pc = "fetch"
    /\ outcome \in FetchOutcomes
    /\ LET me == task[t]
           written == FetchWrites(files, me.uid, me.fmt, outcome, clock)
           dir == CookiesCleanup(written, me)
           found == Located(dir, me.uid)
           decision == UploadDecision(azure)
       IN  /\ files' = dir
           /\ sem_value' = SemRelease(sem_value)
           /\ IF outcome \in {"DownloadError", "RuntimeError"}
              THEN Raise(t, FetchError(outcome))
              ELSE IF found = {}
              THEN Raise(t, HTTPException(500, "Download failed - output file not found"))
              ELSE IF decision = "upload"
              THEN /\ task' = [task EXCEPT ![t].pc = "upload"]
                   /\ last' = NoEvent
                   /\ _jobs' = _jobs
              ELSE Return(t, DownloadResponse(me, CHOOSE n \in found : TRUE, azure,
                        FALSE, None, None,
                        ConfigurationError(decision)))
    /\ UNCHANGED <<job_queue, threads, uuid_count, clock, azure, sweep>>

\* mutant: the account URL and token are looked at first
CredentialMode_sas_first(az) ==
    IF azure_uses_sas(az) THEN "sas"
    ELSE IF azure_uses_connection_string(az) THEN "connection_string"
    ELSE "none"

\* lines 535-540: the client is built from the connection string if there is
\* one, else from the account URL and the token
CredentialMode(az) ==
    IF azure_uses_connection_string(az) THEN "connection_string"
    ELSE IF azure_uses_sas(az) THEN "sas"
    ELSE "none"

\* lines 573-576: the warning "AZURE_GENERATE_SAS ignored ..." is logged
SigningIgnoredWarning(az) ==
    CredentialMode(az) # "connection_string" /\ az.AZURE_GENERATE_SAS

\* mutant: an exception of generate_blob_sas leaves _upload_to_azure
UploadRaises_on_sas(outcome) == outcome \in {"error", "sas_error"}

\* lines 560-572 and 497: the try around the signing keeps its exception inside
\* _upload_to_azure; any other exception of the upload reaches line 497
UploadRaises(outcome) == outcome = "error"

\* mutant: the artifact is deleted after every successful upload
DeletesLocal_always(az, uploaded) == uploaded

\* lines 488-490: "if blob_url:" ... "if settings.AZURE_DELETE_LOCAL_AFTER_UPLOAD:"
DeletesLocal(az, uploaded) == uploaded /\ az.AZURE_DELETE_LOCAL_AFTER_UPLOAD

\* what _upload_to_azure and the deletion after it can do
UploadOutcomes == {"ok", "sas_error", "unlink_error", "error"}

\* lines 486-499 after await _upload_to_azure(...) (lines 515-580)
UploadReturns(t, outcome) ==
    /\ task[t].pc = "upload"
    /\ outcome \in UploadOutcomes
    /\ LET me == task[t]
           name == Artifact(me.uid, me.fmt)
           signing == CredentialMode(azure) = "connection_string"
                        /\ azure.AZURE_GENERATE_SAS /\ azure.lib
       IN  /\ outcome \in {"ok", "sas_error", "unlink_error"} => name \in DOMAIN files
           /\ outcome = "sas_error" => signing
           /\ outcome = "unlink_error" => azure.AZURE_DELETE_LOCAL_AFTER_UPLOAD
           /\ IF UploadRaises(outcome)
              THEN /\ files' = files
                   /\ Return(t, DownloadResponse(me, name, azure, FALSE, None, None,
                                                 "Azure upload failed"))
              ELSE /\ files' = IF DeletesLocal(azure, TRUE) /\ outcome # "unlink_error"
                               THEN Remove(files, name) ELSE files
                   /\ Return(t, DownloadResponse(me, name, azure, TRUE, "blob_url",
                                 IF signing /\ outcome # "sas_error"
                                 THEN "blob_sas_url" ELSE None,
                                 None))
    /\ UNCHANGED <<job_queue, sem_value, threads, uuid_count, clock, azure, sweep>>

----------------------------------------------------------------------------
(* POST /download *)

\* lines 230-256 for a JSON body: "ok" or the detail of the 400 raised
download_audio_check(body) ==
    LET fmt == Lower(OrDefault(body.format, DEFAULT_AUDIO_FORMAT))
    IN  IF "cookies_size" \in DOMAIN body /\ body.cookies_size > MAX_COOKIES_BYTES
        THEN "Cookies file too large (>64KB)"
        ELSE IF _validate_url(body.url) # "ok" THEN _validate_url(body.url)
        ELSE IF ~ _is_allowed_format(fmt) THEN "Format not allowed"
        ELSE "ok"

download_audio(r, body) ==
    /\ r \in Requests
    /\ body \in JsonBodies \cup FormBodies
    /\ task[r].pc = "idle"
    /\ IF download_audio_check(body) = "ok"
       THEN /\ uuid_count + Len(job_queue) + 1 <= MaxUuids
            /\ PerformBegin(r, 0,
                  MakePayload(body.url, body.format, body.quality,
                              IF "cookies_size" \in DOMAIN body
                              THEN CookiesText(body.cookies_size)
                              ELSE body.cookies))
            /\ last' = NoEvent
       ELSE /\ last' = Response("download", 400, 0, None)
            /\ UNCHANGED <<sem_value, task, files, uuid_count>>
    /\ UNCHANGED <<_jobs, job_queue, threads, clock, azure, sweep>>

\* mutant: the slot is given back only on the normal and the error path
CancelRelease_leak(pc, v) == v

\* the semaphore value after CancelledError is thrown into a coroutine at pc:
\* "async with" releases the slot if it was entered (line 435)
CancelRelease(pc, v) == IF pc = "fetch" THEN SemRelease(v) ELSE v

\* The task running a POST /download request is cancelled at a suspension point.
\* Waiting for the semaphore: nothing was entered.  Awaiting the fetch thread:
\* the finally block and the semaphore release run, the thread itself goes on.
\* Awaiting the upload thread: the exception passes "except Exception".
Cancel(r) ==
    /\ r \in Requests
    /\ task[r].pc \in {"acquire", "fetch", "upload"}
    /\ sem_value' = CancelRelease(task[r].pc, sem_value)
    /\ files' = IF task[r].pc = "fetch" THEN CookiesCleanup(files, task[r]) ELSE files
    /\ threads' = IF task[r].pc = "fetch"
                  THEN threads \cup {[uid |-> task[r].uid, fmt |-> task[r].fmt]}
                  ELSE threads
    /\ task' = [task EXCEPT ![r] = IdleTask]
    /\ last' = Response("cancel", 0, 0, None)
    /\ UNCHANGED <<_jobs, job_queue, uuid_count, clock, azure, sweep>>

\* a fetch thread whose awaiting task is gone runs to its end
ThreadEnds(th, outcome) ==
    /\ th \in threads
    /\ outcome \in FetchOutcomes
    /\ threads' = threads \ {th}
    /\ files' = FetchWrites(files, th.uid, th.fmt, outcome, clock)
    /\ last' = NoEvent
    /\ UNCHANGED <<_jobs, job_queue, sem_value, task, uuid_count, clock, azure, sweep>>

----------------------------------------------------------------------------
(* GET /download/async/{job_id} and GET /download/async *)

\* an Optional field of a response: {} for None, {v} for the value v
Opt(rec, k) == IF k \in DOMAIN rec THEN {rec[k]} ELSE {}

\* lines 323-334 / 345-356: AsyncJobStatusResponse of a record
Snapshot(rec) ==
    [id |-> rec.id, status |-> rec.status, created_at |-> rec.created_at,
     updated_at |-> rec.updated_at, result |-> Opt(rec, "result"),
     error |-> Opt(rec, "error")]

get_job_status ==
    /\ \E job_id \in DOMAIN _jobs \cup {0} :
          last' = IF job_id \in DOMAIN _jobs
                  THEN Response("get", 200, job_id, Snapshot(_jobs[job_id]))
                  ELSE Response("get", 404, job_id, None)
    /\ UNCHANGED <<_jobs, job_queue, sem_value, task, threads, files, uuid_count,
                   clock, azure, sweep>>

\* items.sort(key=created_at, reverse=True) on list(_jobs.values()): newest first,
\* records of equal created_at in insertion order (ids are inserted in rising order)
RECURSIVE SortedNewestFirst(_, _)
SortedNewestFirst(jobs, ids) ==
    IF ids = {} THEN <<>>
    ELSE LET first == CHOOSE i \in ids : \A k \in ids :
                          \/ jobs[k].created_at < jobs[i].created_at
                          \/ (jobs[k].created_at = jobs[i].created_at /\ i <= k)
         IN  <<jobs[first]>> \o SortedNewestFirst(jobs, ids \ {first})

\* Python slice items[:limit]
SliceTo(items, limit) ==
    IF limit >= 0
    THEN SubSeq(items, 1, IF limit < Len(items) THEN limit ELSE Len(items))
    ELSE SubSeq(items, 1, IF Len(items) + limit > 0 THEN Len(items) + limit ELSE 0)

\* values of the limit query parameter (50 is the default)
ListLimits == {-1, 0, 1, 50}

list_jobs_result(jobs, limit) ==
    LET items == SliceTo(SortedNewestFirst(jobs, DOMAIN jobs), limit)
    IN  [i \in 1..Len(items) |-> Snapshot(items[i])]

list_jobs ==
    /\ \E limit \in ListLimits :
          last' = Response("list", 200, limit, list_jobs_result(_jobs, limit))
    /\ UNCHANGED <<_jobs, job_queue, sem_value, task, threads, files, uuid_count,
                   clock, azure, sweep>>

----------------------------------------------------------------------------
(* Time *)

Tick ==
    /\ clock < MaxClock
    /\ clock' = clock + 1
    /\ last' = NoEvent
    /\ UNCHANGED <<_jobs, job_queue, sem_value, task, threads, files, uuid_count,
                   azure, sweep>>

----------------------------------------------------------------------------
(* The job pipeline: start-up state (lines 59-67, 200-209) and steps *)

EmptyDict == [x \in {} |-> 0]

\* the cleanup loop is left out of the specifications of the job pipeline
SweepOff == [pc |-> "off", now |-> 0, todo |-> {}]

Init ==
    /\ _jobs = EmptyDict
    /\ job_queue = <<>>
    /\ sem_value = MAX_CONCURRENT_DOWNLOADS
    /\ task = [t \in Tasks |-> IdleTask]
    /\ threads = {}
    /\ files = EmptyDict
    /\ uuid_count = 0
    /\ clock = 0
    /\ azure \in {AzureOff, AzureConn}
    /\ last = NoEvent
    /\ sweep = SweepOff

\* The queued path on its own: enqueue requests, the workers, the clock.  With
\* no POST /download request the semaphore (one slot per worker) never blocks.
Next ==
    \/ \E body \in JsonBodies : enqueue_download(body)
    \/ \E body \in FormBodies : enqueue_download_form(body)
    \/ \E w \in Workers : WorkerGet(w)
    \/ \E w \in Workers, o \in FetchOutcomes : FetchReturns(w, o)
    \/ \E w \in Workers, o \in UploadOutcomes : UploadReturns(w, o)
    \/ Tick

Spec == Init /\ [][Next]_vars

\* the request bodies that pass validation
AcceptedJson == {b \in JsonBodies : enqueue_download_check(b) = "ok"}

AcceptedForm == {b \in FormBodies : enqueue_download_form_check(b) = "ok"}

\* the outcomes that tell a step that returns from one that raises
MainFetchOutcomes == {"ok", "DownloadError"}

MainUploadOutcomes == {"ok", "error"}

\* The queued path with its readers
NextRead ==
    \/ \E body \in AcceptedJson : enqueue_download(body)
    \/ \E body \in AcceptedForm : enqueue_download_form(body)
    \/ \E w \in Workers : WorkerGet(w)
    \/ \E w \in Workers, o \in MainFetchOutcomes : FetchReturns(w, o)
    \/ \E w \in Workers, o \in MainUploadOutcomes : UploadReturns(w, o)
    \/ get_job_status
    \/ list_jobs
    \/ Tick

SpecRead == Init /\ [][NextRead]_vars

\* The queued and the immediate path competing for the semaphore
NextGate ==
    \/ \E body \in AcceptedJson : enqueue_download(body)
    \/ \E w \in Workers : WorkerGet(w)
    \/ \E r \in Requests, body \in AcceptedJson \cup FormBodies : download_audio(r, body)
    \/ \E t \in Tasks : Acquire(t)
    \/ \E t \in Tasks, o \in MainFetchOutcomes : FetchReturns(t, o)
    \/ \E t \in Tasks, o \in MainUploadOutcomes : UploadReturns(t, o)
    \/ \E r \in Requests : Cancel(r)
    \/ \E th \in threads, o \in MainFetchOutcomes : ThreadEnds(th, o)

SpecGate == Init /\ [][NextGate]_vars

\* Scheduling: the event loop resumes a worker whose queue has an item and a
\* coroutine whose semaphore has a free slot; every offloaded fetch and upload
\* call comes back
GateFairness ==
    /\ \A w \in Workers : WF_vars(WorkerGet(w)) /\ WF_vars(Acquire(w))
    /\ \A t \in Tasks :
          /\ WF_vars(\E o \in MainFetchOutcomes : FetchReturns(t, o))
          /\ WF_vars(\E o \in MainUploadOutcomes : UploadReturns(t, o))

\* The competition for the semaphore with one kind of request on each path
NextLive ==
    \/ enqueue_download(PlainBody)
    \/ \E w \in Workers : WorkerGet(w)
    \/ \E r \in Requests : download_audio(r, PlainBody)
    \/ \E t \in Tasks : Acquire(t)
    \/ \E t \in Tasks, o \in MainFetchOutcomes : FetchReturns(t, o)
    \/ \E t \in Tasks, o \in MainUploadOutcomes : UploadReturns(t, o)

SpecLive == Init /\ [][NextLive]_vars /\ GateFairness

----------------------------------------------------------------------------
(* _cleanup_loop (lines 174-197) *)

MAX_FILE_AGE_HOURS == 6

\* line 176
max_age_seconds == MAX_FILE_AGE_HOURS * 3600

\* mutant: a file whose age equals the threshold is taken as expired
Expired_inclusive(age) == age >= max_age_seconds

\* line 187
Expired(age) == age > max_age_seconds

\* mutant: the exception of unlink() leaves the for loop (no inner try)
AfterUnlinkError_abort(todo, name) == {}

\* lines 191-192: the files still to examine after unlink() raised on `name`
AfterUnlinkError(todo, name) == todo \ {name}

SweepOps == {"listed", "list_error", "vanished", "stat_error", "kept",
             "unlink_error", "removed"}

SweepEvent(what, name) == [op |-> what, status |-> 0, job_id |-> 0, data |-> name]

\* lines 178-181: a cycle starts: read the clock, list the directory; a listing
\* that raises ends the cycle in the outer handler (lines 195-197)
SweepStart(listing_ok) ==
    /\ sweep.pc = "sleep"
    /\ sweep' = IF listing_ok
                THEN [pc |-> "scan", now |-> clock, todo |-> DOMAIN files]
                ELSE [pc |-> "sleep", now |-> clock, todo |-> {}]
    /\ last' = SweepEvent(IF listing_ok THEN "listed" ELSE "list_error", None)
    /\ UNCHANGED <<_jobs, job_queue, sem_value, task, threads, files, uuid_count,
                   clock, azure>>

\* what stat() and unlink() can do on one listed file
SweepOutcomes == {"ok", "stat_error", "unlink_error"}

\* lines 181-192: one pass of the for loop, on the listed file `name`
SweepFile(name, outcome) ==
    /\ sweep.pc = "scan"
    /\ name \in sweep.todo
    /\ outcome \in SweepOutcomes
    /\ IF name \notin DOMAIN files
       THEN \* FileNotFoundError: continue
            /\ outcome = "ok"
            /\ files' = files
            /\ sweep' = [sweep EXCEPT !.todo = sweep.todo \ {name}]
            /\ last' = SweepEvent("vanished", name)
       ELSE IF outcome = "stat_error"
       THEN \* another OSError of stat(): the outer handler ends the cycle
            /\ files' = files
            /\ sweep' = [sweep EXCEPT !.pc = "sleep", !.todo = {}]
            /\ last' = SweepEvent("stat_error", name)
       ELSE IF ~ Expired(sweep.now - files[name])
       THEN /\ outcome = "ok"
            /\ files' = files
            /\ sweep' = [sweep EXCEPT !.todo = sweep.todo \ {name}]
            /\ last' = SweepEvent("kept", name)
       ELSE IF outcome = "unlink_error"
       THEN /\ files' = files
            /\ sweep' = [sweep EXCEPT !.todo = AfterUnlinkError(sweep.todo, name)]
            /\ last' = SweepEvent("unlink_error", name)
       ELSE /\ files' = Remove(files, name)
            /\ sweep' = [sweep EXCEPT !.todo = sweep.todo \ {name}]
            /\ last' = SweepEvent("removed", name)
    /\ UNCHANGED <<_jobs, job_queue, sem_value, task, threads, uuid_count, clock, azure>>

\* lines 193-197: the for loop is over; await asyncio.sleep(interval)
SweepSleep ==
    /\ sweep.pc = "scan"
    /\ sweep.todo = {}
    /\ sweep' = [sweep EXCEPT !.pc = "sleep"]
    /\ last' = SweepEvent("sleep", None)
    /\ UNCHANGED <<_jobs, job_queue, sem_value, task, threads, files, uuid_count,
                   clock, azure>>

\* The directory as the other threads and handlers change it while the loop runs:
\* a fetch thread writes its output (lines 437-441), a file is removed (a temporary
\* file of the fetch engine, DELETE /download/{filename}, line 493)
SweepNames == {Artifact(1, "mp3"), Artifact(2, "mp3"), CookiesFile(3)}

EnvEvent(what, name) == [op |-> what, status |-> 0, job_id |-> 0, data |-> name]

EnvWrite(name) ==
    /\ name \in SweepNames \ DOMAIN files
    /\ files' = DictSet(files, name, clock)
    /\ last' = EnvEvent("write", name)
    /\ UNCHANGED <<_jobs, job_queue, sem_value, task, threads, uuid_count, clock,
                   azure, sweep>>

EnvRemove(name) ==
    /\ name \in DOMAIN files
    /\ files' = Remove(files, name)
    /\ last' = EnvEvent("remove", name)
    /\ UNCHANGED <<_jobs, job_queue, sem_value, task, threads, uuid_count, clock,
                   azure, sweep>>

\* Start-up with files left in the directory by an earlier run: at clock 0 their
\* ages are around the threshold
InitSweep ==
    /\ _jobs = EmptyDict
    /\ job_queue = <<>>
    /\ sem_value = MAX_CONCURRENT_DOWNLOADS
    /\ task = [t \in Tasks |-> IdleTask]
    /\ threads = {}
    /\ \E names \in SUBSET SweepNames :
          files \in [names -> {0 - max_age_seconds - 1, 0 - max_age_seconds,
                               1 - max_age_seconds}]
    /\ uuid_count = 0
    /\ clock = 0
    /\ azure = AzureOff
    /\ last = NoEvent
    /\ sweep = [pc |-> "sleep", now |-> 0, todo |-> {}]

NextSweep ==
    \/ \E ok \in BOOLEAN : SweepStart(ok)
    \/ \E name \in SweepNames, o \in SweepOutcomes : SweepFile(name, o)
    \/ SweepSleep
    \/ \E name \in SweepNames : EnvWrite(name)
    \/ \E name \in SweepNames : EnvRemove(name)
    \/ Tick

SpecSweep == InitSweep /\ [][NextSweep]_vars

\* the steps of the loop itself: its body runs without suspension and the event
\* loop resumes it after the sleep
SweepStep ==
    \/ \E ok \in BOOLEAN : SweepStart(ok)
    \/ \E name \in SweepNames, o \in SweepOutcomes : SweepFile(name, o)
    \/ SweepSleep

SpecSweepFair == SpecSweep /\ WF_vars(SweepStep)

----------------------------------------------------------------------------
(* GET and DELETE /download/{filename} (lines 583-614) *)

\* name.split(".", 1)[0]: a file name <<head, tail>> reads head "." tail, but the
\* cookies file reads head "_cookies.txt", whose first part is head "_cookies"
SplitFirst(name) ==
    IF name[2] = "_cookies.txt" THEN <<name[1], "_cookies">> ELSE <<name[1]>>

\* uuid.UUID(stem) parses: the tokens uuid4 draws are 1, 2, ...; 0 is a text that
\* is no UUID
ParsesAsUuid(stem) == Len(stem) = 1 /\ stem[1] >= 1

\* mutant: every name passes the pattern check
_is_valid_uuid_prefix_any(name) == TRUE

\* lines 608-614
_is_valid_uuid_prefix(name) == ParsesAsUuid(SplitFirst(name))

\* the names requested: artifacts and a cookies file, a name whose stem is no UUID
FileRequestNames == SweepNames \cup {Artifact(4, "mp3"), Artifact(0, "mp3")}

\* lines 583-591
get_file(name) ==
    /\ name \in FileRequestNames
    /\ last' = IF ~ _is_valid_uuid_prefix(name)
               THEN Response("get_file", 400, 0, name)
               ELSE IF name \notin DOMAIN files
               THEN Response("get_file", 404, 0, name)
               ELSE Response("get_file", 200, 0, name)
    /\ UNCHANGED <<_jobs, job_queue, sem_value, task, threads, files, uuid_count,
                   clock, azure, sweep>>

\* what unlink() of an existing file can do
UnlinkOutcomes == {"ok", "error"}

\* lines 594-605
delete_file(name, outcome) ==
    /\ name \in FileRequestNames
    /\ outcome \in UnlinkOutcomes
    /\ IF ~ _is_valid_uuid_prefix(name)
       THEN /\ outcome = "ok"
            /\ files' = files
            /\ last' = Response("delete_file", 400, 0, name)
       ELSE IF name \notin DOMAIN files
       THEN /\ outcome = "ok"
            /\ files' = files
            /\ last' = Response("delete_file", 404, 0, name)
       ELSE IF outcome = "error"
       THEN /\ files' = files
            /\ last' = Response("delete_file", 500, 0, name)
       ELSE /\ files' = Remove(files, name)
            /\ last' = Response("delete_file", 200, 0, name)
    /\ UNCHANGED <<_jobs, job_queue, sem_value, task, threads, uuid_count, clock,
                   azure, sweep>>

\* The two endpoints while the cleanup loop runs and files come and go
NextFiles ==
    \/ \E name \in FileRequestNames : get_file(name)
    \/ \E name \in FileRequestNames, o \in UnlinkOutcomes : delete_file(name, o)
    \/ \E ok \in BOOLEAN : SweepStart(ok)
    \/ \E name \in SweepNames, o \in SweepOutcomes : SweepFile(name, o)
    \/ SweepSleep
    \/ \E name \in SweepNames : EnvWrite(name)
    \/ \E name \in SweepNames : EnvRemove(name)
    \/ Tick

SpecFiles == InitSweep /\ [][NextFiles]_vars

----------------------------------------------------------------------------
(* The upload stage under every Azure configuration *)

\* Start-up under any setting of the Azure fields
InitUpload ==
    /\ _jobs = EmptyDict
    /\ job_queue = <<>>
    /\ sem_value = MAX_CONCURRENT_DOWNLOADS
    /\ task = [t \in Tasks |-> IdleTask]
    /\ threads = {}
    /\ files = EmptyDict
    /\ uuid_count = 0
    /\ clock = 0
    /\ azure \in AzureSettings
    /\ last = NoEvent
    /\ sweep = SweepOff

\* Both paths through _perform_download while DELETE /download/{filename}
\* requests remove artifacts
NextUpload ==
    \/ enqueue_download(PlainBody)
    \/ \E w \in Workers : WorkerGet(w)
    \/ download_audio(101, PlainBody)
    \/ \E t \in Tasks, o \in MainFetchOutcomes : FetchReturns(t, o)
    \/ \E t \in Tasks, o \in UploadOutcomes : UploadReturns(t, o)
    \/ \E name \in DOMAIN files : delete_file(name, "ok")

SpecUpload == InitUpload /\ [][NextUpload]_vars

----------------------------------------------------------------------------
(* The job store on its own: _create_job_record and _update_job called with any
   id (lines 70-87) *)

StoreIds == {1, 2}

StorePayloads ==
    { MakePayload(UrlWatch, "mp3", "best", None),
      MakePayload(UrlShort, "m4a", "high", "cookies") }

\* the keyword arguments that the worker passes to _update_job
StoreFields ==
    { RunningFields(1),
      CompletedFields([success |-> TRUE, filename |-> Artifact(1, "mp3")]),
      ErrorFields(HTTPException(500, "Download failed")) }

CreateCall(job_id, payload) ==
    /\ job_id \in StoreIds
    /\ payload \in StorePayloads
    /\ _jobs' = _create_job_record(_jobs, job_id, payload, clock)
    /\ last' = Response("create", 0, job_id, None)
    /\ UNCHANGED <<job_queue, sem_value, task, threads, files, uuid_count, clock,
                   azure, sweep>>

UpdateCall(job_id, fields) ==
    /\ job_id \in StoreIds
    /\ fields \in StoreFields
    /\ _jobs' = _update_job(_jobs, job_id, fields, clock)
    /\ last' = Response("update", 0, job_id, None)
    /\ UNCHANGED <<job_queue, sem_value, task, threads, files, uuid_count, clock,
                   azure, sweep>>

NextStore ==
    \/ \E job_id \in StoreIds, payload \in StorePayloads : CreateCall(job_id, payload)
    \/ \E job_id \in StoreIds, fields \in StoreFields : UpdateCall(job_id, fields)
    \/ Tick

SpecStore == Init /\ [][NextStore]_vars

----------------------------------------------------------------------------
(* Properties of the job records *)

Terminal == {"completed", "error"}

StatusStep(a, b) ==
    \/ a = b
    \/ a = "pending" /\ b = "running"
    \/ a = "running" /\ b \in Terminal

\* C1: in every step, every job record keeps its status or moves it along
\* pending -> running -> (completed | error); a new record starts as pending, and
\* no record disappears.
C1_StatusMonotone ==
    [][ /\ \A j \in DOMAIN _jobs :
             /\ j \in DOMAIN _jobs'
             /\ StatusStep(_jobs[j].status, _jobs'[j].status)
        /\ \A j \in DOMAIN _jobs' \ DOMAIN _jobs : _jobs'[j].status = "pending"
      ]_vars

\* two jobs went through the workers, one ended completed and one ended error
C1_Witness ==
    \E i, j \in DOMAIN _jobs :
        _jobs[i].status = "completed" /\ _jobs[j].status = "error"

\* C2: a record whose status is completed or error is the same record, field for
\* field, after every step (worker, enqueue, get, list, clock).
C2_TerminalFrozen ==
    [][ \A j \in DOMAIN _jobs :
            _jobs[j].status \in Terminal
                => (j \in DOMAIN _jobs' /\ _jobs'[j] = _jobs[j])
      ]_vars

\* a job is terminal, and a later update of another job and a read have happened
C2_Witness ==
    /\ last.op \in {"get", "list"}
    /\ \E i, j \in DOMAIN _jobs :
          /\ _jobs[i].status \in Terminal
          /\ _jobs[j].status \in Terminal
          /\ _jobs[j].updated_at > _jobs[i].updated_at

\* C3: a record holds a result exactly when it is completed and an error message
\* exactly when it is error (so never both, and neither while pending or
\* running); the snapshot GET /download/async/{job_id} returns shows the same.
C3_ResultErrorPresence ==
    /\ \A j \in DOMAIN _jobs :
          /\ ("result" \in DOMAIN _jobs[j]) <=> (_jobs[j].status = "completed")
          /\ ("error" \in DOMAIN _jobs[j]) <=> (_jobs[j].status = "error")
    /\ (last.op = "get" /\ last.status = 200) =>
          /\ (last.data.result # {}) <=> (last.data.status = "completed")
          /\ (last.data.error # {}) <=> (last.data.status = "error")

\* the store holds a completed and an error record and a completed one was read
C3_Witness ==
    /\ \E i, j \in DOMAIN _jobs :
          _jobs[i].status = "completed" /\ _jobs[j].status = "error"
    /\ last.op = "get" /\ last.status = 200 /\ last.data.status = "completed"

\* C7: no step ends a worker: a worker whose fetch or upload comes back, failed or
\* not, is idle again (ready to dequeue) or in its upload, and the job it ran is
\* then completed or error, an error record carrying its message.
C7_WorkerSurvivesFailure ==
    [][ \A w \in Workers :
          /\ task'[w].pc \in {"idle", "acquire", "fetch", "upload"}
          /\ (task[w].pc \in {"fetch", "upload"} /\ task'[w].pc # task[w].pc
                /\ task'[w].pc # "upload")
               => /\ task'[w].pc = "idle"
                  /\ _jobs'[task[w].job].status \in Terminal
                  /\ _jobs'[task[w].job].status = "error"
                        => "error" \in DOMAIN _jobs'[task[w].job]
      ]_vars

\* a worker whose job failed has taken another job afterwards
C7_Witness ==
    \E i, j \in DOMAIN _jobs :
        /\ _jobs[i].status = "error"
        /\ i < j
        /\ "worker" \in DOMAIN _jobs[j]
        /\ _jobs[j].worker = _jobs[i].worker

\* what the claim calls failing validation, for a JSON and for a form body
InvalidUrl(url) ==
    url = NoUrl \/ ~ \E d \in allowed_domains_list : EndsWith(url, d)

InvalidFormat(format) ==
    Lower(OrDefault(format, DEFAULT_AUDIO_FORMAT)) \notin allowed_formats_list

\* C8: an enqueue request with a missing URL, a disallowed domain, a disallowed
\* format or a cookies file over 64 KiB is answered 400, and a step answered 400
\* by an enqueue handler leaves store, queue, tasks, files and the uuid counter
\* as they were.
C8_RejectedEnqueueNoTrace ==
    [][ /\ last'.op = "enqueue" =>
             \A body \in JsonBodies :
                ((InvalidUrl(body.url) \/ InvalidFormat(body.format))
                   /\ enqueue_download(body))
                  => last'.status = 400
        /\ last'.op = "enqueue_form" =>
             \A body \in FormBodies :
                ((InvalidUrl(body.url) \/ InvalidFormat(body.format)
                         \/ body.cookies_size > 64 * 1024)
                   /\ enqueue_download_form(body))
                  => last'.status = 400
        /\ (last'.op \in {"enqueue", "enqueue_form"} /\ last'.status = 400)
               => UNCHANGED <<_jobs, job_queue, task, sem_value, files, uuid_count>>
      ]_vars

\* a request was rejected while the store and the queue held a job
C8_Witness ==
    /\ last.op \in {"enqueue", "enqueue_form"}
    /\ last.status = 400
    /\ DOMAIN _jobs # {}
    /\ job_queue # <<>>

----------------------------------------------------------------------------
(* Properties of the semaphore *)

\* fetch-engine calls in progress, by who started them
WorkerFetches == Cardinality({w \in Workers : task[w].pc = "fetch"})

SyncFetches == Cardinality({r \in Requests : task[r].pc = "fetch"}) + Cardinality(threads)

\* C4: at most N fetches started by workers and at most gateCapacity fetches
\* started by POST /download requests are in progress, a fetch counting until its
\* offloaded call returns.
C4_FetchesBounded ==
    /\ WorkerFetches <= MAX_CONCURRENT_DOWNLOADS
    /\ SyncFetches <= MAX_CONCURRENT_DOWNLOADS

\* C5: the fetches in progress, worker-started and request-started together, are
\* at most MAX_CONCURRENT_DOWNLOADS.
C5_TotalFetchesBounded ==
    WorkerFetches + SyncFetches <= MAX_CONCURRENT_DOWNLOADS

\* the coroutines inside "async with download_semaphore"
Holders == {t \in Tasks : task[t].pc = "fetch"}

\* C6: free slots plus held slots is the capacity, the free slots stay within
\* 0..capacity, and with no request waiting for or inside the semaphore every
\* slot is free.
C6_SlotsConserved ==
    /\ sem_value + Cardinality(Holders) = MAX_CONCURRENT_DOWNLOADS
    /\ sem_value \in 0..MAX_CONCURRENT_DOWNLOADS
    /\ (\A t \in Tasks : task[t].pc \notin {"acquire", "fetch"})
          => sem_value = MAX_CONCURRENT_DOWNLOADS

\* a request was cancelled during its fetch (its thread is still running), a
\* fetch failed, and all slots are free again
C6_Witness ==
    /\ threads # {}
    /\ last.op = "cancel"
    /\ sem_value = MAX_CONCURRENT_DOWNLOADS
    /\ \E j \in DOMAIN _jobs : _jobs[j].status = "error"

----------------------------------------------------------------------------
(* Properties of the cleanup loop *)

\* the listed, still existing files that the step takes off the cycle's list
Examined(name) ==
    /\ sweep.pc = "scan"
    /\ name \in sweep.todo
    /\ name \in DOMAIN files
    /\ name \notin sweep'.todo

Untouched(name) == name \in DOMAIN files' /\ files'[name] = files[name]

\* C9 as claimed: a listed file that the cycle is done with is gone if its age
\* (cycle start minus st_mtime) is strictly greater than the threshold, and left
\* as it was if its age is at most the threshold.
C9_DeletesEveryExpired ==
    [][ \A name \in SweepNames :
            Examined(name) =>
                IF sweep.now - files[name] > max_age_seconds
                THEN name \notin DOMAIN files'
                ELSE Untouched(name)
      ]_vars

\* C9 as amended: a listed file of age at most the threshold is left as it was;
\* one of greater age is gone after its turn unless unlink() raised on it or a
\* stat() error ended the cycle; and whenever the loop removes a file, that file
\* was listed and its age is strictly greater than the threshold.
C9_DeletesOnlyExpired ==
    [][ /\ \A name \in SweepNames :
             Examined(name) =>
                 IF sweep.now - files[name] > max_age_seconds
                 THEN \/ name \notin DOMAIN files'
                      \/ Untouched(name) /\ last'.op \in {"unlink_error", "stat_error"}
                 ELSE Untouched(name)
        /\ \A name \in DOMAIN files \ DOMAIN files' :
             last'.op \in SweepOps =>
                 /\ name \in sweep.todo
                 /\ sweep.now - files[name] > max_age_seconds
      ]_vars

\* in one cycle a file older than the threshold was removed after a file whose
\* age is exactly the threshold was examined and kept
C9_Witness ==
    /\ last.op = "removed"
    /\ \E other \in DOMAIN files :
          /\ other \notin sweep.todo
          /\ sweep.now - files[other] = max_age_seconds

\* C10: the loop is always either scanning or sleeping; a listed file that is
\* gone is skipped without any effect; an unlink() that raises leaves the other
\* listed files on the cycle's list; a listing that raises ends in the sleep; a
\* sleeping loop can start a cycle, every scan reaches the sleep, and cycles keep
\* starting.
C10_SweeperNeverStops ==
    /\ [](sweep.pc \in {"sleep", "scan"})
    /\ [](sweep.pc = "sleep" => ENABLED SweepStart(TRUE))
    /\ [][ \A name \in SweepNames :
             /\ (SweepFile(name, "ok") /\ name \notin DOMAIN files)
                   => /\ files' = files
                      /\ sweep'.pc = "scan"
                      /\ sweep'.todo = sweep.todo \ {name}
             /\ SweepFile(name, "unlink_error")
                   => /\ sweep'.pc = "scan"
                      /\ sweep'.todo = sweep.todo \ {name}
         ]_vars
    /\ [][ (last'.op = "list_error" /\ SweepStart(FALSE)) => sweep'.pc = "sleep" ]_vars
    /\ (sweep.pc = "scan") ~> (sweep.pc = "sleep")
    /\ []<>(last.op \in {"listed", "list_error"})

\* in a running cycle an expired file is still there after its unlink() raised,
\* and a file examined after it was removed
C10_Witness ==
    /\ sweep.pc = "scan"
    /\ last.op = "removed"
    /\ \E other \in DOMAIN files :
          /\ other \notin sweep.todo
          /\ Expired(sweep.now - files[other])

----------------------------------------------------------------------------
(* Properties of GET and DELETE /download/{filename} *)

\* the part of the name before the first dot is a unique token
StemIsToken(name) == name[1] >= 1 /\ name[2] # "_cookies.txt"

FileRequest(name) == get_file(name) \/ \E o \in UnlinkOutcomes : delete_file(name, o)

\* what both endpoints do with a name that is refused or not found
RefusedOrMissing(name) ==
    /\ ~ StemIsToken(name) => last'.status = 400 /\ files' = files
    /\ (StemIsToken(name) /\ name \notin DOMAIN files)
          => last'.status = 404 /\ files' = files

\* C11 as claimed: a name whose stem is no unique token gives 400 and a valid name
\* of no file gives 404, both with the directory unchanged; a valid name of an
\* existing file succeeds, and after a DELETE the file is gone.
C11_FileEndpointsSucceed ==
    [][ \A name \in FileRequestNames :
          FileRequest(name) =>
             /\ RefusedOrMissing(name)
             /\ (StemIsToken(name) /\ name \in DOMAIN files)
                   => /\ last'.status = 200
                      /\ files' = IF last'.op = "delete_file"
                                  THEN Remove(files, name) ELSE files
      ]_vars

\* C11 as amended: as claimed, except that a DELETE of an existing file whose
\* unlink() raises answers 500 and leaves the file; a DELETE that answered 200
\* has removed the file, so the next DELETE of that name answers 404.
C11_FileEndpoints ==
    [][ \A name \in FileRequestNames :
          FileRequest(name) =>
             /\ RefusedOrMissing(name)
             /\ (StemIsToken(name) /\ name \in DOMAIN files)
                   => \/ /\ last'.status = 200
                         /\ files' = IF last'.op = "delete_file"
                                     THEN Remove(files, name) ELSE files
                      \/ /\ last'.op = "delete_file"
                         /\ last'.status = 500
                         /\ files' = files
      ]_vars

\* a DELETE succeeded on a file that the running sweep cycle had listed, with a
\* file that no request may touch in the directory
C11_Witness ==
    /\ last.op = "delete_file" /\ last.status = 200
    /\ sweep.pc = "scan" /\ last.data \in sweep.todo
    /\ last.data \notin DOMAIN files
    /\ CookiesFile(3) \in DOMAIN files

----------------------------------------------------------------------------
(* Properties of the upload stage *)

\* the step ends task t's _perform_download by a return or a raise
Finishes(t) == task[t].pc \in {"fetch", "upload"} /\ task'[t].pc = "idle"

\* the Outcome that the step hands to t's caller: the job's result or the body of
\* the 200 response; {} when the call raised
Outcome(t) ==
    IF t \in Workers
    THEN Opt(_jobs'[task[t].job], "result")
    ELSE IF last'.status = 200 THEN {last'.data} ELSE {}

\* the fetch of t returns with its artifact in place
FetchSucceeds(t) ==
    /\ FetchReturns(t, "ok")
    /\ Artifact(task[t].uid, task[t].fmt) \in DOMAIN files'

\* C12: once the fetch has succeeded and the artifact was located, whatever the
\* upload stage does (credentials missing, library missing, the upload raising,
\* the artifact deleted meanwhile, signing or the local deletion failing) the
\* call returns an Outcome with success = TRUE and a queued job ends completed;
\* an upload that was refused or raised shows as blob_error.
C12_UploadFailureKeepsSuccess ==
    [][ \A t \in Tasks :
          /\ (Finishes(t) /\ (task[t].pc = "upload" \/ FetchSucceeds(t)))
                => /\ Outcome(t) # {}
                   /\ \A r \in Outcome(t) : r.success = TRUE
                   /\ t \in Workers => _jobs'[task[t].job].status = "completed"
          /\ (UploadReturns(t, "error")
                \/ (FetchSucceeds(t)
                      /\ UploadDecision(azure) \in {"missing_credentials", "not_installed"}))
                => \A r \in Outcome(t) : r.blob_error # None /\ r.blob_uploaded = "False"
      ]_vars

\* a queued job is completed with success although its artifact was deleted
\* before the upload read it
C12_Witness ==
    \E j \in DOMAIN _jobs :
        /\ _jobs[j].status = "completed"
        /\ _jobs[j].result.success = TRUE
        /\ _jobs[j].result.blob_error = "Azure upload failed"
        /\ _jobs[j].result.filename \notin DOMAIN files
        /\ last.op = "internal"
        /\ ~ azure.AZURE_DELETE_LOCAL_AFTER_UPLOAD

UploadFieldsEmpty(r) ==
    /\ r.blob_uploaded = None
    /\ r.blob_url = None
    /\ r.blob_sas_url = None
    /\ r.blob_error = None

\* the rows of the matrix that hold for every return of a located fetch
MatrixRows(t) ==
    /\ ~ azure.AZURE_UPLOAD_ENABLED
          => /\ task'[t].pc # "upload"
             /\ \A r \in Outcome(t) : UploadFieldsEmpty(r)
    /\ (azure.AZURE_UPLOAD_ENABLED /\ ~ azure.conn /\ ~ azure.sas)
          => /\ task'[t].pc # "upload"
             /\ \A r \in Outcome(t) :
                   r.blob_error # None /\ r.blob_uploaded = "False" /\ r.blob_url = None
    /\ (azure.AZURE_UPLOAD_ENABLED /\ ~ azure.conn /\ azure.sas /\ azure.lib)
          => /\ task[t].pc = "fetch" => task'[t].pc = "upload"
             /\ \A r \in Outcome(t) : r.blob_sas_url = None

----------------------------------------------------------------------------
(* Properties of the job store *)

\* C14: _create_job_record with an id that the store already has leaves the
\* store as it was.
C14_CreateExistingIsNoOp ==
    [][ \A job_id \in StoreIds, payload \in StorePayloads :
          (CreateCall(job_id, payload) /\ job_id \in DOMAIN _jobs) => _jobs' = _jobs
      ]_vars

\* C15: _update_job with an unknown id leaves the store as it was; with a known
\* id the record afterwards has exactly the given fields merged in and
\* updated_at set to the current time, every other key of it, among them id,
\* created_at and payload, and every other record being as before.
C15_UpdateMergesFields ==
    [][ \A job_id \in StoreIds, fields \in StoreFields :
          UpdateCall(job_id, fields) =>
             IF job_id \notin DOMAIN _jobs
             THEN _jobs' = _jobs
             ELSE /\ DOMAIN _jobs' = DOMAIN _jobs
                  /\ \A other \in DOMAIN _jobs \ {job_id} : _jobs'[other] = _jobs[other]
                  /\ DOMAIN _jobs'[job_id] = DOMAIN _jobs[job_id] \cup DOMAIN fields
                  /\ \A k \in DOMAIN fields : _jobs'[job_id][k] = fields[k]
                  /\ _jobs'[job_id].updated_at = clock
                  /\ \A k \in DOMAIN _jobs[job_id] \ (DOMAIN fields \cup {"updated_at"}) :
                        _jobs'[job_id][k] = _jobs[job_id][k]
                  /\ _jobs'[job_id].id = _jobs[job_id].id
                  /\ _jobs'[job_id].created_at = _jobs[job_id].created_at
                  /\ _jobs'[job_id].payload = _jobs[job_id].payload
      ]_vars

\* an update of an unknown id has just returned with another record in the store,
\* and that record was updated later than it was created
C15_Witness ==
    /\ last.op = "update"
    /\ last.job_id \notin DOMAIN _jobs
    /\ \E other \in DOMAIN _jobs :
          /\ _jobs[other].status = "completed"
          /\ _jobs[other].updated_at > _jobs[other].created_at

----------------------------------------------------------------------------
(* Properties of GET /download/async *)

\* C16: the response to limit = N holds min(N, number of records) snapshots (none
\* for N <= 0), never more than N, of the most recently created records, newest
\* first.
C16_ListNewestLimited ==
    last.op = "list" =>
        LET n == last.job_id
            got == last.data
            ids == {got[i].id : i \in 1..Len(got)}
            count == Cardinality(DOMAIN _jobs)
        IN  /\ Len(got) = IF n <= 0 THEN 0 ELSE IF n < count THEN n ELSE count
            /\ Cardinality(ids) = Len(got)
            /\ ids \subseteq DOMAIN _jobs
            /\ \A i \in 1..Len(got) : got[i] = Snapshot(_jobs[got[i].id])
            /\ \A i, k \in 1..Len(got) : i < k => got[i].created_at >= got[k].created_at
            /\ \A a \in ids, b \in DOMAIN _jobs \ ids :
                  _jobs[a].created_at >= _jobs[b].created_at

----------------------------------------------------------------------------
(* Properties of the queue order *)

\* Job ids number the enqueue requests: uuid4 draws rising tokens, one per
\* accepted request, so a smaller id was enqueued earlier.
EnqueuedBefore(a, b) == a < b

\* C17: the queue holds the waiting jobs in enqueue order, a worker takes the
\* oldest waiting job, and so a job is never still pending when a job enqueued
\* after it has been marked running.
C17_StartedInEnqueueOrder ==
    /\ \A i, k \in 1..Len(job_queue) :
          i < k => EnqueuedBefore(job_queue[i][1], job_queue[k][1])
    /\ \A a, b \in DOMAIN _jobs :
          (EnqueuedBefore(a, b) /\ _jobs[b].status # "pending")
             => _jobs[a].status # "pending"

\* completion order is free: the job enqueued later is terminal while the
\* earlier one is still running
C17_Witness ==
    \E a, b \in DOMAIN _jobs :
        /\ EnqueuedBefore(a, b)
        /\ _jobs[a].status = "running"
        /\ _jobs[b].status \in Terminal

----------------------------------------------------------------------------
(* Properties of the artifact name *)

\* C18: the filename in a completed job's result is the job id followed by an
\* extension.
C18_ArtifactNamedByJobId ==
    \A j \in DOMAIN _jobs :
        _jobs[j].status = "completed" =>
            \E ext \in allowed_formats_list : _jobs[j].result.filename = Artifact(j, ext)

----------------------------------------------------------------------------
(* Progress of the queued jobs *)

\* C19: under the scheduling assumptions every job in the store eventually has
\* status completed or error, also with POST /download requests taking the
\* slots first.
C19_EveryJobTerminates ==
    \A j \in 1..MaxUuids :
        (j \in DOMAIN _jobs) ~> (j \in DOMAIN _jobs /\ _jobs[j].status \in Terminal)

\* a job is terminal after its worker had to wait for a slot held by POST
\* /download requests: both requests are still fetching
C19_Witness ==
    /\ \E j \in DOMAIN _jobs : _jobs[j].status = "running"
    /\ \E w \in Workers : task[w].pc = "acquire"
    /\ \A r \in Requests : task[r].pc = "fetch"

----------------------------------------------------------------------------
(* Properties of the slot during the upload *)

\* the calls of _perform_download that are fetching or uploading
FetchingOrUploading == {t \in Tasks : task[t].pc \in {"fetch", "upload"}}

\* C20: a slot stays taken until the upload stage of its holder has finished: the
\* free slots are the capacity less the calls that are fetching or uploading, so
\* these calls are never more than the capacity.
C20_SlotHeldThroughUpload ==
    /\ sem_value = MAX_CONCURRENT_DOWNLOADS - Cardinality(FetchingOrUploading)
    /\ Cardinality(FetchingOrUploading) <= MAX_CONCURRENT_DOWNLOADS

----------------------------------------------------------------------------
(* Properties of the gate and the worker pool *)

\* C21: only POST /download requests take slots, so the free slots are the
\* capacity less the requests that are fetching, and a worker that has dequeued
\* a job never waits for a slot.
C21_WorkersBypassGate ==
    /\ sem_value = MAX_CONCURRENT_DOWNLOADS
                     - Cardinality({r \in Requests : task[r].pc = "fetch"})
    /\ \A w \in Workers : task[w].pc # "acquire"

----------------------------------------------------------------------------
(* Properties of the single run of a job *)

QueuedIds == {job_queue[i][1] : i \in 1..Len(job_queue)}

HeldIds == {task[w].job : w \in Workers} \ {0}

\* C22: a job id is on the queue at most once and only while pending, is held
\* by at most one worker and only while running, and a job that is completed or
\* in error is neither queued nor held, so it is never run again.
C22_NoRetry ==
    /\ Cardinality(QueuedIds) = Len(job_queue)
    /\ \A j \in QueuedIds : _jobs[j].status = "pending" /\ j \notin HeldIds
    /\ \A w, v \in Workers : (w # v /\ task[w].job # 0) => task[w].job # task[v].job
    /\ \A j \in HeldIds : _jobs[j].status = "running"
    /\ \A j \in DOMAIN _jobs :
          _jobs[j].status \in Terminal => j \notin QueuedIds \cup HeldIds

\* a job is in error while a worker runs a job enqueued after it
C22_Witness ==
    \E j \in DOMAIN _jobs :
        /\ _jobs[j].status = "error"
        /\ \E w \in Workers : task[w].job > j /\ task[w].pc = "fetch"

----------------------------------------------------------------------------
(* Properties of the deletion after the upload *)

\* the step is one of t's _perform_download, after its fetch came back
OwnStep(t) == FetchSucceeds(t) \/ (task[t].pc = "upload" /\ Finishes(t))

\* C23: a step of the upload stage removes its artifact only if
\* AZURE_DELETE_LOCAL_AFTER_UPLOAD is set and the upload went through, and then
\* it does remove it unless unlink() raises; when unlink() raises the file stays
\* and the Outcome still has blob_uploaded true, the object URL and no error.
C23_LocalDeletionOnlyAfterUpload ==
    [][ \A t \in Tasks :
          LET name == Artifact(task[t].uid, task[t].fmt)
          IN  /\ (OwnStep(t) /\ name \in DOMAIN files /\ name \notin DOMAIN files')
                    => /\ azure.AZURE_DELETE_LOCAL_AFTER_UPLOAD
                       /\ Outcome(t) # {}
                       /\ \A r \in Outcome(t) :
                             r.blob_uploaded = "True" /\ r.blob_url # None
              /\ ((UploadReturns(t, "ok") \/ UploadReturns(t, "sas_error"))
                    /\ azure.AZURE_DELETE_LOCAL_AFTER_UPLOAD)
                    => name \notin DOMAIN files'
              /\ UploadReturns(t, "unlink_error")
                    => /\ name \in DOMAIN files'
                       /\ Outcome(t) # {}
                       /\ \A r \in Outcome(t) :
                             /\ r.blob_uploaded = "True"
                             /\ r.blob_url # None
                             /\ r.blob_error = None
      ]_vars

\* an upload stage has just removed its artifact, and another job's artifact is
\* still there after its upload failed
C23_Witness ==
    /\ azure.AZURE_DELETE_LOCAL_AFTER_UPLOAD
    /\ last.op = "internal"
    /\ \E j, k \in DOMAIN _jobs :
          /\ _jobs[j].status = "completed" /\ _jobs[k].status = "completed"
          /\ _jobs[j].result.blob_uploaded = "True"
          /\ _jobs[j].result.filename \notin DOMAIN files
          /\ _jobs[k].result.blob_uploaded = "False"
          /\ _jobs[k].result.filename \in DOMAIN files

----------------------------------------------------------------------------
(* Properties of the signing *)

\* C24: with a connection string and AZURE_GENERATE_SAS, when generate_blob_sas
\* raises after the blob was written, _perform_download still returns: its
\* Outcome has success and blob_uploaded true, the blob URL, no signed URL and
\* no blob_error.
C24_SigningFailureKeepsUpload ==
    [][ \A t \in Tasks :
          UploadReturns(t, "sas_error") =>
             /\ azure_uses_connection_string(azure) /\ azure.AZURE_GENERATE_SAS
             /\ Outcome(t) # {}
             /\ \A r \in Outcome(t) :
                   /\ r.success
                   /\ r.blob_uploaded = "True"
                   /\ r.blob_url = "blob_url"
                   /\ r.blob_sas_url = None
                   /\ r.blob_error = None
      ]_vars

\* a job completed with the blob written and no signed URL although signing was
\* requested and possible
C24_Witness ==
    /\ azure.conn /\ azure.AZURE_GENERATE_SAS /\ azure.lib
    /\ \E j \in DOMAIN _jobs :
          /\ _jobs[j].status = "completed"
          /\ _jobs[j].result.blob_uploaded = "True"
          /\ _jobs[j].result.blob_sas_url = None
          /\ _jobs[j].result.blob_error = None

----------------------------------------------------------------------------
(* Properties of the missing storage library *)

\* C25: with AZURE_UPLOAD_ENABLED and a connection string or an account URL with
\* a token, but BlobServiceClient None, a fetch that located its artifact returns
\* at once: no upload is started, the Outcome has blob_uploaded false, no URL and
\* the not-installed blob_error, which is not the missing-credentials one, and
\* the artifact is still in the directory.
C25_LibraryMissing ==
    [][ \A t \in Tasks :
          (FetchSucceeds(t) /\ azure.AZURE_UPLOAD_ENABLED
             /\ (azure.conn \/ azure.sas) /\ ~ azure.lib)
          => /\ task'[t].pc = "idle"
             /\ Artifact(task[t].uid, task[t].fmt) \in DOMAIN files'
             /\ Outcome(t) # {}
             /\ \A r \in Outcome(t) :
                   /\ r.blob_error = ConfigurationError("not_installed")
                   /\ r.blob_error # None
                   /\ r.blob_error # ConfigurationError("missing_credentials")
                   /\ r.blob_uploaded = "False"
                   /\ r.blob_url = None
                   /\ r.blob_sas_url = None
      ]_vars

\* a job completed without the library, its artifact still there
C25_Witness ==
    /\ azure.AZURE_UPLOAD_ENABLED /\ azure.sas /\ ~ azure.lib
    /\ \E j \in DOMAIN _jobs :
          /\ _jobs[j].status = "completed"
          /\ _jobs[j].result.blob_error = ConfigurationError("not_installed")
          /\ _jobs[j].result.filename \in DOMAIN files

----------------------------------------------------------------------------
(* Properties of what a reader sees *)

\* a snapshot of a record that is not half updated
Whole(snap) ==
    /\ snap.status = "completed" => snap.result # {}
    /\ snap.status = "error" => snap.error # {}
    /\ snap.status \in {"pending", "running"} => snap.result = {} /\ snap.error = {}
    /\ snap.updated_at >= snap.created_at

\* C26: the snapshot GET /download/async/{job_id} returns, and every snapshot in
\* the list GET /download/async returns, is the record as the store holds it at
\* that moment, between two updates and never inside one: a completed snapshot
\* has its result, an error snapshot its message, and every step that changes a
\* record leaves it with the updated_at of that step.
C26_ReadersSeeWholeUpdates ==
    /\ []((last.op = "get" /\ last.status = 200) =>
             /\ last.data = Snapshot(_jobs[last.job_id])
             /\ Whole(last.data))
    /\ [](last.op = "list" =>
             \A i \in 1..Len(last.data) :
                /\ last.data[i].id \in DOMAIN _jobs
                /\ last.data[i] = Snapshot(_jobs[last.data[i].id])
                /\ Whole(last.data[i]))
    /\ [][ \A j \in DOMAIN _jobs :
             (j \in DOMAIN _jobs' /\ _jobs'[j] # _jobs[j])
                => _jobs'[j].updated_at = clock'
       ]_vars

\* a list was read between the two updates of a job: it shows it running, after
\* the time it was created, next to a job already completed
C26_Witness ==
    /\ last.op = "list"
    /\ \E i, k \in 1..Len(last.data) :
          /\ last.data[i].status = "running"
          /\ last.data[i].updated_at > last.data[i].created_at
          /\ last.data[k].status = "completed"

----------------------------------------------------------------------------
(* Properties of the records behind the queue *)

\* C27: every id in job_queue or held by a worker is a key of _jobs; no step
\* removes a key; an enqueue request that answers 200 has stored the record of
\* the id it returns; so the update of a worker that takes or finishes a job
\* finds its record and changes it, and GET /download/async/{job_id} answers 404
\* only for an id that is not in the store, never for one an enqueue returned.
C27_QueuedIdsHaveRecords ==
    /\ [](QueuedIds \cup HeldIds \subseteq DOMAIN _jobs)
    /\ []((last.op = "get" /\ last.status = 404) => last.job_id \notin DOMAIN _jobs)
    /\ [][ /\ DOMAIN _jobs \subseteq DOMAIN _jobs'
           /\ (last'.op \in {"enqueue", "enqueue_form"} /\ last'.status = 200)
                 => last'.job_id \in DOMAIN _jobs'
           /\ \A w \in Workers :
                 LET before == task[w].job
                     after == task'[w].job
                 IN  /\ (before = 0 /\ after # 0)
                           => /\ after \in DOMAIN _jobs
                              /\ _jobs'[after] # _jobs[after]
                              /\ _jobs'[after].status = "running"
                     /\ (before # 0 /\ after = 0)
                           => /\ before \in DOMAIN _jobs
                              /\ _jobs'[before] # _jobs[before]
                              /\ _jobs'[before].status \in Terminal
       ]_vars

\* the record of a job a worker holds was read while another job waits in the
\* queue
C27_Witness ==
    /\ last.op = "get" /\ last.status = 200
    /\ last.job_id \in HeldIds
    /\ QueuedIds # {}

----------------------------------------------------------------------------
(* Properties of the upload fields *)

\* the upload fields of one Outcome agree with each other
UploadFieldsAgree(r) ==
    /\ (r.blob_uploaded = "True") <=> (r.blob_url # None)
    /\ r.blob_sas_url # None => r.blob_uploaded = "True"
    /\ r.blob_error # None => r.blob_uploaded # "True"

\* C28: in every Outcome, the result of a completed job or the body of a 200
\* response of POST /download, blob_uploaded is true exactly when blob_url is
\* set, blob_sas_url is set only when blob_uploaded is true, and blob_error is
\* set only when blob_uploaded is not true.
C28_UploadFieldsConsistent ==
    /\ \A j \in DOMAIN _jobs :
          "result" \in DOMAIN _jobs[j] => UploadFieldsAgree(_jobs[j].result)
    /\ (last.op = "download" /\ last.status = 200) => UploadFieldsAgree(last.data)

\* Outcomes of the three kinds are there: uploaded with a signed URL, refused
\* with an error, and (in the response) one of them again
C28_Witness ==
    /\ last.op = "download" /\ last.status = 200
    /\ last.data.blob_uploaded = "True"
    /\ last.data.blob_sas_url # None
    /\ \E j \in DOMAIN _jobs :
          /\ "result" \in DOMAIN _jobs[j]
          /\ _jobs[j].result.blob_uploaded = "True"
          /\ _jobs[j].result.blob_sas_url = None

----------------------------------------------------------------------------
(* Properties of the credential mode *)

\* upload on, a connection string and an account URL with a token all set
BothCredentials(az) == az.AZURE_UPLOAD_ENABLED /\ az.conn /\ az.sas

\* C29 as claimed: with both credential sets the upload runs in connection-string
\* mode, so with AZURE_GENERATE_SAS every Outcome of the upload stage has a
\* signed URL, and the signing-ignored warning is not logged.
C29_BothCredentialsAsClaimed ==
    [][ \A t \in Tasks :
          (task[t].pc = "upload" /\ Finishes(t) /\ BothCredentials(azure)) =>
             /\ CredentialMode(azure) = "connection_string"
             /\ ~ SigningIgnoredWarning(azure)
             /\ azure.AZURE_GENERATE_SAS
                   => /\ Outcome(t) # {}
                      /\ \A r \in Outcome(t) : r.blob_sas_url # None
      ]_vars

\* C29 as amended: with both credential sets the upload runs in connection-string
\* mode and the signing-ignored warning is not logged; with AZURE_GENERATE_SAS
\* the Outcome has a signed URL whenever the upload and the signing both went
\* through, and without it the Outcome has none.
C29_BothCredentials ==
    [][ \A t \in Tasks :
          (task[t].pc = "upload" /\ Finishes(t) /\ BothCredentials(azure)) =>
             /\ CredentialMode(azure) = "connection_string"
             /\ ~ SigningIgnoredWarning(azure)
             /\ Outcome(t) # {}
             /\ \A r \in Outcome(t) :
                   /\ (azure.AZURE_GENERATE_SAS
                         /\ (UploadReturns(t, "ok") \/ UploadReturns(t, "unlink_error")))
                        => r.blob_sas_url = "blob_sas_url"
                   /\ ~ azure.AZURE_GENERATE_SAS => r.blob_sas_url = None
      ]_vars

\* with both credential sets and signing requested, a job completed with a
\* signed URL
C29_Witness ==
    /\ BothCredentials(azure) /\ azure.AZURE_GENERATE_SAS
    /\ \E j \in DOMAIN _jobs :
          /\ _jobs[j].status = "completed"
          /\ _jobs[j].result.blob_sas_url = "blob_sas_url"

----------------------------------------------------------------------------
(* Properties of the cookie file *)

\* the cookie files in the download directory
CookieFiles == {n \in DOMAIN files : n[2] = "_cookies.txt"}

\* C30: a cookie file in the download directory belongs to a call of
\* _perform_download that has not finished: one waiting for the semaphore or in
\* its fetch.  Once the request has returned, failed or been cancelled, its
\* cookie file is gone.
C30_CookieFileRemoved ==
    \A n \in CookieFiles :
        \E t \in Tasks :
            /\ task[t].pc \in {"acquire", "fetch"}
            /\ task[t].cookie
            /\ task[t].uid = n[1]

====
